---- MODULE Spec2Model ----
(***************************************************************************)
(* Model of the URL shortener service (src/app.py) and of the load-test    *)
(* client's use of it (src/locustfile.py).                                 *)
(*                                                                         *)
(* The shared state is the PostgreSQL table `urls` and the Redis keyspace. *)
(* Each HTTP request is a process whose position is its pc; the steps of a *)
(* handler are split at its calls to PostgreSQL and Redis, which is where  *)
(* requests served by different workers interleave.  Every such call      *)
(* either reaches its backend (dbUp, redisUp) or raises because the        *)
(* backend is unavailable at that moment; neither handler catches          *)
(* anything, so a call that raises ends the request with HTTP 500.         *)
(***************************************************************************)
EXTENDS Integers, Sequences, FiniteSets, TLC

\* Bounds of the model.
MaxRequests == 3
NumTokens == 2

\* The requests of a run: any mix of up to MaxRequests POST /shorten and
\* GET /{short_url_hash} requests.
CreateIds == 1..MaxRequests
ResolveIds == 1..MaxRequests

\* The values secrets.choice can assemble into short_url_hash.
Tokens == 1..NumTokens

\* URLs posted by clients, as sequences of code points ("" , "a", "é").
Urls == {<<>>, <<97>>, <<233>>}

\* A request body without the url field, which URLItem requires.
Missing == <<-1>>

\* What a POST /shorten can carry.
Bodies == Urls \cup {Missing}

\* Whether the insert statement timed out although the server committed
\* it.  (A statement that timed out and was not committed leaves what an
\* unreachable server leaves; the handler sees an exception in both cases
\* and cannot tell which one happened.)
Timeouts == {"none", "committed"}

\* What happens to one POST /shorten: its body, the token generated for
\* it, whether PostgreSQL is reachable and how the insert ends.  A token is
\* generated only for a body that passes validation (any token stands for
\* none otherwise), and only a statement that reached PostgreSQL can time
\* out.
CreateInputs ==
    {in \in Bodies \X Tokens \X BOOLEAN \X Timeouts :
        /\ in[1] \in {<<>>, Missing} => in[2] = 1 /\ in[3]
        /\ (in[1] \in {<<>>, Missing} \/ ~in[3]) => in[4] = "none"}

\* An Optional value (the result of redis get, of fetchone) is a sequence
\* of at most one element; None is the empty one.
None == <<>>

VARIABLES urls, redis, creates, resolves

vars == <<urls, redis, creates, resolves>>

----------------------------------------------------------------------------
\* Conversions

EncodeCp(cp) ==
    IF cp < 128 THEN <<cp>> ELSE <<192 + (cp \div 64), 128 + (cp % 64)>>

\* A mutant of Encode: encoding as ASCII with replacement ('?').
RECURSIVE EncodeAscii(_)
EncodeAscii(s) ==
    IF s = <<>> THEN <<>>
    ELSE <<IF Head(s) < 128 THEN Head(s) ELSE 63>> \o EncodeAscii(Tail(s))

\* str -> bytes, as redis-py encodes a str value (UTF-8).
RECURSIVE Encode(_)
Encode(s) ==
    IF s = <<>> THEN <<>> ELSE EncodeCp(Head(s)) \o Encode(Tail(s))

\* A mutant of Decode: decoding as latin-1 (one code point per byte).
DecodeLatin1(b) == b

\* bytes -> str, long_url.decode("utf-8").
RECURSIVE Decode(_)
Decode(b) ==
    IF b = <<>> THEN <<>>
    ELSE IF Head(b) < 128 THEN <<Head(b)>> \o Decode(Tail(b))
    ELSE <<(Head(b) - 192) * 64 + (b[2] - 128)>> \o Decode(SubSeq(b, 3, Len(b)))

\* f"http://{SERVICE_IP}/{short_url_hash}", as its '/'-separated segments.
FullShortUrl(h) == <<"http:", "", "localhost", h>>

\* short_url.split('/')[-1] in the load-test client.
SplitLast(segments) == segments[Len(segments)]

----------------------------------------------------------------------------
\* The table and the key/value store

\* A mutant of UniqueViolation: the column declared without unique=True.
UniqueViolationOff(table, h) == FALSE

\* The unique index on urls.short_url rejects an insert of an existing value.
UniqueViolation(table, h) == \E i \in 1..Len(table) : table[i].short_url = h

\* urls.insert().values(...) followed by commit; id is the serial key.
InsertRow(table, h, u) ==
    Append(table, [id |-> Len(table) + 1, short_url |-> h, long_url |-> u])

Matching(table, h) == {i \in 1..Len(table) : table[i].short_url = h}

\* A mutant of SelectOne: the query without its where clause.
SelectAny(table, h) ==
    IF Len(table) = 0 THEN None ELSE <<table[1]>>

\* urls.select().where(short_url == h) ... fetchone(): the first matching
\* row, or None.
SelectOne(table, h) ==
    IF Matching(table, h) = {} THEN None
    ELSE <<table[CHOOSE i \in Matching(table, h) :
                    \A j \in Matching(table, h) : i <= j]>>

\* redis_client.get(key)
RedisGet(kv, k) == IF k \in DOMAIN kv THEN <<kv[k]>> ELSE None

\* redis_client.set(key, value): the str value is stored as bytes.
RedisSet(kv, k, v) == [x \in (DOMAIN kv) \cup {k} |-> IF x = k THEN Encode(v) ELSE kv[x]]

\* Python truthiness of an Optional[bytes]: neither None nor b"".
Truthy(b) == IF b = None THEN FALSE ELSE b[1] # <<>>

----------------------------------------------------------------------------
\* Requests.  The record of a request holds what the client sent, the
\* handler's local variables while it runs, and the response; the token of
\* a request that ended with an error is gone with the handler's frame.

NoResponse == [status |-> 0, body |-> <<>>, error |-> ""]
Response(s, b, e) == [status |-> s, body |-> b, error |-> e]

IdleCreate == [pc |-> "idle", long_url |-> <<>>, short_url_hash |-> 0,
               inserts |-> 0, response |-> NoResponse]
IdleResolve == [pc |-> "idle", short_url_hash |-> 0, cached |-> None,
                row |-> None, dbCalls |-> 0, expect |-> {},
                response |-> NoResponse]

\* The number of requests made so far.
Started ==
    Cardinality({c \in CreateIds : creates[c].pc # "idle"})
      + Cardinality({r \in ResolveIds : resolves[r].pc # "idle"})

Init ==
    /\ urls = <<>>
    /\ redis = <<>>
    /\ creates = [c \in CreateIds |-> IdleCreate]
    /\ resolves = [r \in ResolveIds |-> IdleResolve]

\* A mutant of CreateInsert: the insert's IntegrityError caught and ignored.
CreateInsertSwallow(c, u, h, dbUp, t) ==
    /\ creates[c].pc = "idle"
    /\ IF c = 1 THEN TRUE ELSE creates[c - 1].pc # "idle"
    /\ Started < MaxRequests
    /\ IF u = Missing
       THEN /\ creates' = [creates EXCEPT ![c] = [@ EXCEPT !.pc = "done",
                 !.long_url = u,
                 !.response = Response(422, <<>>, "Field required")]]
            /\ UNCHANGED <<urls, redis>>
       ELSE IF u = <<>>
       THEN /\ creates' = [creates EXCEPT ![c] = [@ EXCEPT !.pc = "done",
                 !.response = Response(400, <<>>, "URL not provided")]]
            /\ UNCHANGED <<urls, redis>>
       ELSE IF ~dbUp
       THEN /\ creates' = [creates EXCEPT ![c] = [@ EXCEPT !.pc = "done",
                 !.long_url = u, !.inserts = 0,
                 !.response = Response(500, <<>>, "StoreUnavailable")]]
            /\ UNCHANGED <<urls, redis>>
       ELSE IF UniqueViolation(urls, h)
       THEN /\ creates' = [creates EXCEPT ![c] = [@ EXCEPT !.pc = "cache",
                 !.long_url = u, !.short_url_hash = h, !.inserts = 1]]
            /\ UNCHANGED <<urls, redis>>
       ELSE IF t # "none"
       THEN /\ creates' = [creates EXCEPT ![c] = [@ EXCEPT !.pc = "done",
                 !.long_url = u, !.inserts = 1,
                 !.response = Response(500, <<>>, "StoreTimeout")]]
            /\ urls' = IF t = "committed" THEN InsertRow(urls, h, u) ELSE urls
            /\ UNCHANGED redis
       ELSE /\ urls' = InsertRow(urls, h, u)
            /\ creates' = [creates EXCEPT ![c] = [@ EXCEPT !.pc = "cache",
                 !.long_url = u, !.short_url_hash = h, !.inserts = 1]]
            /\ UNCHANGED redis
    /\ UNCHANGED resolves

\* A mutant of CreateInsert: the Redis write moved in front of the insert.
CreateInsertCacheFirst(c, u, h, dbUp, t) ==
    /\ creates[c].pc = "idle"
    /\ IF c = 1 THEN TRUE ELSE creates[c - 1].pc # "idle"
    /\ Started < MaxRequests
    /\ IF u = Missing
       THEN /\ creates' = [creates EXCEPT ![c] = [@ EXCEPT !.pc = "done",
                 !.long_url = u,
                 !.response = Response(422, <<>>, "Field required")]]
            /\ UNCHANGED <<urls, redis>>
       ELSE IF u = <<>>
       THEN /\ creates' = [creates EXCEPT ![c] = [@ EXCEPT !.pc = "done",
                 !.response = Response(400, <<>>, "URL not provided")]]
            /\ UNCHANGED <<urls, redis>>
       ELSE IF ~dbUp
       THEN /\ creates' = [creates EXCEPT ![c] = [@ EXCEPT !.pc = "done",
                 !.long_url = u, !.inserts = 0,
                 !.response = Response(500, <<>>, "StoreUnavailable")]]
            /\ UNCHANGED urls
            /\ redis' = RedisSet(redis, h, u)
       ELSE IF UniqueViolation(urls, h)
       THEN /\ creates' = [creates EXCEPT ![c] = [@ EXCEPT !.pc = "done",
                 !.long_url = u, !.inserts = 1,
                 !.response = Response(500, <<>>, "IntegrityError")]]
            /\ UNCHANGED urls
            /\ redis' = RedisSet(redis, h, u)
       ELSE IF t # "none"
       THEN /\ creates' = [creates EXCEPT ![c] = [@ EXCEPT !.pc = "done",
                 !.long_url = u, !.inserts = 1,
                 !.response = Response(500, <<>>, "StoreTimeout")]]
            /\ urls' = IF t = "committed" THEN InsertRow(urls, h, u) ELSE urls
            /\ redis' = RedisSet(redis, h, u)
       ELSE /\ urls' = InsertRow(urls, h, u)
            /\ creates' = [creates EXCEPT ![c] = [@ EXCEPT !.pc = "cache",
                 !.long_url = u, !.short_url_hash = h, !.inserts = 1]]
            /\ redis' = RedisSet(redis, h, u)
    /\ UNCHANGED resolves

\* A mutant of CreateInsert: when PostgreSQL cannot be reached the url is
\* still put into Redis before the error is raised.
CreateInsertOfflineFirst(c, u, h, dbUp, t) ==
    /\ creates[c].pc = "idle"
    /\ IF c = 1 THEN TRUE ELSE creates[c - 1].pc # "idle"
    /\ Started < MaxRequests
    /\ IF u = Missing
       THEN /\ creates' = [creates EXCEPT ![c] = [@ EXCEPT !.pc = "done",
                 !.long_url = u,
                 !.response = Response(422, <<>>, "Field required")]]
            /\ UNCHANGED <<urls, redis>>
       ELSE IF u = <<>>
       THEN /\ creates' = [creates EXCEPT ![c] = [@ EXCEPT !.pc = "done",
                 !.response = Response(400, <<>>, "URL not provided")]]
            /\ UNCHANGED <<urls, redis>>
       ELSE IF ~dbUp
       THEN /\ creates' = [creates EXCEPT ![c] = [@ EXCEPT !.pc = "done",
                 !.long_url = u, !.inserts = 0,
                 !.response = Response(500, <<>>, "StoreUnavailable")]]
            /\ redis' = RedisSet(redis, h, u)
            /\ UNCHANGED urls
       ELSE IF UniqueViolation(urls, h)
       THEN /\ creates' = [creates EXCEPT ![c] = [@ EXCEPT !.pc = "done",
                 !.long_url = u, !.inserts = 1,
                 !.response = Response(500, <<>>, "IntegrityError")]]
            /\ UNCHANGED <<urls, redis>>
       ELSE IF t # "none"
       THEN /\ creates' = [creates EXCEPT ![c] = [@ EXCEPT !.pc = "done",
                 !.long_url = u, !.inserts = 1,
                 !.response = Response(500, <<>>, "StoreTimeout")]]
            /\ urls' = IF t = "committed" THEN InsertRow(urls, h, u) ELSE urls
            /\ UNCHANGED redis
       ELSE /\ urls' = InsertRow(urls, h, u)
            /\ creates' = [creates EXCEPT ![c] = [@ EXCEPT !.pc = "cache",
                 !.long_url = u, !.short_url_hash = h, !.inserts = 1]]
            /\ UNCHANGED redis
    /\ UNCHANGED resolves

\* A mutant of CreateInsert: an insert that timed out is executed again
\* with the same token.
CreateInsertRetryTimeout(c, u, h, dbUp, t) ==
    /\ creates[c].pc = "idle"
    /\ IF c = 1 THEN TRUE ELSE creates[c - 1].pc # "idle"
    /\ Started < MaxRequests
    /\ IF u = Missing
       THEN /\ creates' = [creates EXCEPT ![c] = [@ EXCEPT !.pc = "done",
                 !.long_url = u,
                 !.response = Response(422, <<>>, "Field required")]]
            /\ UNCHANGED <<urls, redis>>
       ELSE IF u = <<>>
       THEN /\ creates' = [creates EXCEPT ![c] = [@ EXCEPT !.pc = "done",
                 !.response = Response(400, <<>>, "URL not provided")]]
            /\ UNCHANGED <<urls, redis>>
       ELSE IF ~dbUp
       THEN /\ creates' = [creates EXCEPT ![c] = [@ EXCEPT !.pc = "done",
                 !.long_url = u, !.inserts = 0,
                 !.response = Response(500, <<>>, "StoreUnavailable")]]
            /\ UNCHANGED <<urls, redis>>
       ELSE IF UniqueViolation(urls, h)
       THEN /\ creates' = [creates EXCEPT ![c] = [@ EXCEPT !.pc = "done",
                 !.long_url = u, !.inserts = 1,
                 !.response = Response(500, <<>>, "IntegrityError")]]
            /\ UNCHANGED <<urls, redis>>
       ELSE IF t # "none"
       THEN /\ UNCHANGED redis
            /\ IF t = "committed"
               THEN /\ urls' = InsertRow(urls, h, u)
                    /\ creates' = [creates EXCEPT ![c] = [@ EXCEPT !.pc = "done",
                         !.long_url = u, !.inserts = 2,
                         !.response = Response(500, <<>>, "IntegrityError")]]
               ELSE /\ urls' = InsertRow(urls, h, u)
                    /\ creates' = [creates EXCEPT ![c] = [@ EXCEPT !.pc = "cache",
                         !.long_url = u, !.short_url_hash = h, !.inserts = 2]]
       ELSE /\ urls' = InsertRow(urls, h, u)
            /\ creates' = [creates EXCEPT ![c] = [@ EXCEPT !.pc = "cache",
                 !.long_url = u, !.short_url_hash = h, !.inserts = 1]]
            /\ UNCHANGED redis
    /\ UNCHANGED resolves

\* A mutant of CreateInsert: the insert written as an upsert, which on a
\* conflict updates the long_url of the existing row.
CreateInsertUpsert(c, u, h, dbUp, t) ==
    /\ creates[c].pc = "idle"
    /\ IF c = 1 THEN TRUE ELSE creates[c - 1].pc # "idle"
    /\ Started < MaxRequests
    /\ IF u = Missing
       THEN /\ creates' = [creates EXCEPT ![c] = [@ EXCEPT !.pc = "done",
                 !.long_url = u,
                 !.response = Response(422, <<>>, "Field required")]]
            /\ UNCHANGED <<urls, redis>>
       ELSE IF u = <<>>
       THEN /\ creates' = [creates EXCEPT ![c] = [@ EXCEPT !.pc = "done",
                 !.response = Response(400, <<>>, "URL not provided")]]
            /\ UNCHANGED <<urls, redis>>
       ELSE IF ~dbUp
       THEN /\ creates' = [creates EXCEPT ![c] = [@ EXCEPT !.pc = "done",
                 !.long_url = u, !.inserts = 0,
                 !.response = Response(500, <<>>, "StoreUnavailable")]]
            /\ UNCHANGED <<urls, redis>>
       ELSE IF UniqueViolation(urls, h)
       THEN /\ urls' = [i \in 1..Len(urls) |->
                 IF urls[i].short_url = h
                 THEN [urls[i] EXCEPT !.long_url = u] ELSE urls[i]]
            /\ creates' = [creates EXCEPT ![c] = [@ EXCEPT !.pc = "cache",
                 !.long_url = u, !.short_url_hash = h, !.inserts = 1]]
            /\ UNCHANGED redis
       ELSE IF t # "none"
       THEN /\ creates' = [creates EXCEPT ![c] = [@ EXCEPT !.pc = "done",
                 !.long_url = u, !.inserts = 1,
                 !.response = Response(500, <<>>, "StoreTimeout")]]
            /\ urls' = IF t = "committed" THEN InsertRow(urls, h, u) ELSE urls
            /\ UNCHANGED redis
       ELSE /\ urls' = InsertRow(urls, h, u)
            /\ creates' = [creates EXCEPT ![c] = [@ EXCEPT !.pc = "cache",
                 !.long_url = u, !.short_url_hash = h, !.inserts = 1]]
            /\ UNCHANGED redis
    /\ UNCHANGED resolves

\* POST /shorten with body u: request validation, the handler's own check,
\* token generation (h is what secrets.choice produced), then "Save to
\* PostgreSQL": connect, insert, commit.  Nothing shared is touched before
\* the insert, so the handler's first step runs up to the end of the with
\* block.  dbUp says whether PostgreSQL can be reached; t says whether the
\* statement timed out, and then whether the server had committed it.
CreateInsert(c, u, h, dbUp, t) ==
    /\ creates[c].pc = "idle"
    /\ IF c = 1 THEN TRUE ELSE creates[c - 1].pc # "idle"
    /\ Started < MaxRequests
    /\ IF u = Missing
       THEN /\ creates' = [creates EXCEPT ![c] = [@ EXCEPT !.pc = "done",
                 !.long_url = u,
                 !.response = Response(422, <<>>, "Field required")]]
            /\ UNCHANGED <<urls, redis>>
       ELSE IF u = <<>>
       THEN /\ creates' = [creates EXCEPT ![c] = [@ EXCEPT !.pc = "done",
                 !.response = Response(400, <<>>, "URL not provided")]]
            /\ UNCHANGED <<urls, redis>>
       ELSE IF ~dbUp
       THEN /\ creates' = [creates EXCEPT ![c] = [@ EXCEPT !.pc = "done",
                 !.long_url = u, !.inserts = 0,
                 !.response = Response(500, <<>>, "StoreUnavailable")]]
            /\ UNCHANGED <<urls, redis>>
       ELSE IF UniqueViolation(urls, h)
       THEN /\ creates' = [creates EXCEPT ![c] = [@ EXCEPT !.pc = "done",
                 !.long_url = u, !.inserts = 1,
                 !.response = Response(500, <<>>, "IntegrityError")]]
            /\ UNCHANGED <<urls, redis>>
       ELSE IF t # "none"
       THEN /\ creates' = [creates EXCEPT ![c] = [@ EXCEPT !.pc = "done",
                 !.long_url = u, !.inserts = 1,
                 !.response = Response(500, <<>>, "StoreTimeout")]]
            /\ urls' = IF t = "committed" THEN InsertRow(urls, h, u) ELSE urls
            /\ UNCHANGED redis
       ELSE /\ urls' = InsertRow(urls, h, u)
            /\ creates' = [creates EXCEPT ![c] = [@ EXCEPT !.pc = "cache",
                 !.long_url = u, !.short_url_hash = h, !.inserts = 1]]
            /\ UNCHANGED redis
    /\ UNCHANGED resolves

\* Save to Redis, then return the short URL.
CreateCacheSet(c, redisUp) ==
    /\ creates[c].pc = "cache"
    /\ IF ~redisUp
       THEN /\ creates' = [creates EXCEPT ![c].pc = "done",
                 ![c].short_url_hash = 0,
                 ![c].response = Response(500, <<>>, "CacheUnavailable")]
            /\ UNCHANGED redis
       ELSE /\ redis' = RedisSet(redis, creates[c].short_url_hash, creates[c].long_url)
            /\ creates' = [creates EXCEPT ![c].pc = "done",
                 ![c].response = Response(200, FullShortUrl(creates[c].short_url_hash), "")]
    /\ UNCHANGED <<urls, resolves>>

\* The targets of the creates that have returned the token h to a client,
\* which takes it from the response as the load test does.
Issued(h) ==
    {creates[c].long_url : c \in {d \in CreateIds :
        /\ creates[d].pc = "done"
        /\ creates[d].response.status = 200
        /\ SplitLast(creates[d].response.body) = h}}

\* A mutant of ResolveCacheGet: the cached value is fetched but the handler
\* goes on to query PostgreSQL anyway.
ResolveCacheGetNoReturn(r, h, redisUp) ==
    /\ resolves[r].pc = "idle"
    /\ IF r = 1 THEN TRUE ELSE resolves[r - 1].pc # "idle"
    /\ Started < MaxRequests
    /\ IF ~redisUp
       THEN resolves' = [resolves EXCEPT ![r] = [@ EXCEPT !.pc = "done",
                !.short_url_hash = h, !.expect = Issued(h),
                !.response = Response(500, <<>>, "CacheUnavailable")]]
       ELSE resolves' = [resolves EXCEPT ![r] = [@ EXCEPT !.pc = "select",
                !.short_url_hash = h, !.expect = Issued(h),
                !.cached = RedisGet(redis, h)]]
    /\ UNCHANGED <<urls, redis, creates>>

\* GET /{h}: check Redis first; a hit redirects at once.  expect records
\* what clients had been told about h when the request was made.
ResolveCacheGet(r, h, redisUp) ==
    /\ resolves[r].pc = "idle"
    /\ IF r = 1 THEN TRUE ELSE resolves[r - 1].pc # "idle"
    /\ Started < MaxRequests
    /\ IF ~redisUp
       THEN resolves' = [resolves EXCEPT ![r] = [@ EXCEPT !.pc = "done",
                !.short_url_hash = h, !.expect = Issued(h),
                !.response = Response(500, <<>>, "CacheUnavailable")]]
       ELSE LET got == RedisGet(redis, h) IN
            IF Truthy(got)
            THEN resolves' = [resolves EXCEPT ![r] = [@ EXCEPT !.pc = "done",
                     !.short_url_hash = h, !.expect = Issued(h),
                     !.cached = got,
                     !.response = Response(307, Decode(got[1]), "")]]
            ELSE resolves' = [resolves EXCEPT ![r] = [@ EXCEPT !.pc = "select",
                     !.short_url_hash = h, !.expect = Issued(h),
                     !.cached = got]]
    /\ UNCHANGED <<urls, redis, creates>>

\* A mutant of ResolveSelect: a miss in PostgreSQL is remembered in Redis.
ResolveSelectNegCache(r, dbUp) ==
    /\ resolves[r].pc = "select"
    /\ IF ~dbUp
       THEN /\ resolves' = [resolves EXCEPT ![r].pc = "done",
                 ![r].response = Response(500, <<>>, "StoreUnavailable")]
            /\ UNCHANGED redis
       ELSE LET result == SelectOne(urls, resolves[r].short_url_hash) IN
            IF result # None
            THEN /\ resolves' = [resolves EXCEPT ![r].pc = "backfill",
                      ![r].dbCalls = @ + 1,
                      ![r].row = result]
                 /\ UNCHANGED redis
            ELSE /\ resolves' = [resolves EXCEPT ![r].pc = "done",
                      ![r].dbCalls = @ + 1,
                      ![r].response = Response(404, <<>>, "Short URL not found")]
                 /\ redis' = RedisSet(redis, resolves[r].short_url_hash, <<45>>)
    /\ UNCHANGED <<urls, creates>>

\* If not in Redis, check PostgreSQL; no row is a 404.
ResolveSelect(r, dbUp) ==
    /\ resolves[r].pc = "select"
    /\ IF ~dbUp
       THEN resolves' = [resolves EXCEPT ![r].pc = "done",
                ![r].response = Response(500, <<>>, "StoreUnavailable")]
       ELSE LET result == SelectOne(urls, resolves[r].short_url_hash) IN
            IF result # None
            THEN resolves' = [resolves EXCEPT ![r].pc = "backfill",
                     ![r].dbCalls = @ + 1,
                     ![r].row = result]
            ELSE resolves' = [resolves EXCEPT ![r].pc = "done",
                     ![r].dbCalls = @ + 1,
                     ![r].response = Response(404, <<>>, "Short URL not found")]
    /\ UNCHANGED <<urls, redis, creates>>

\* A mutant of ResolveBackfill: Redis is flushed before the write-back.
ResolveBackfillFlush(r, redisUp) ==
    /\ resolves[r].pc = "backfill"
    /\ IF ~redisUp
       THEN /\ resolves' = [resolves EXCEPT ![r].pc = "done",
                 ![r].response = Response(500, <<>>, "CacheUnavailable")]
            /\ UNCHANGED redis
       ELSE /\ redis' = RedisSet(<<>>, resolves[r].short_url_hash,
                                 resolves[r].row[1].long_url)
            /\ resolves' = [resolves EXCEPT ![r].pc = "done",
                 ![r].response = Response(307, resolves[r].row[1].long_url, "")]
    /\ UNCHANGED <<urls, creates>>

\* Save to Redis for next time, then redirect.
ResolveBackfill(r, redisUp) ==
    /\ resolves[r].pc = "backfill"
    /\ IF ~redisUp
       THEN /\ resolves' = [resolves EXCEPT ![r].pc = "done",
                 ![r].response = Response(500, <<>>, "CacheUnavailable")]
            /\ UNCHANGED redis
       ELSE /\ redis' = RedisSet(redis, resolves[r].short_url_hash,
                                 resolves[r].row[1].long_url)
            /\ resolves' = [resolves EXCEPT ![r].pc = "done",
                 ![r].response = Response(307, resolves[r].row[1].long_url, "")]
    /\ UNCHANGED <<urls, creates>>

----------------
\* The environment of the service

\* Redis drops a key (memory policy, restart).
Evict(k) ==
    /\ k \in DOMAIN redis
    /\ redis' = [x \in (DOMAIN redis) \ {k} |-> redis[x]]
    /\ UNCHANGED <<urls, creates, resolves>>

Next ==
    \/ \E c \in CreateIds, in \in CreateInputs :
          CreateInsert(c, in[1], in[2], in[3], in[4])
    \/ \E c \in CreateIds, redisUp \in BOOLEAN : CreateCacheSet(c, redisUp)
    \/ \E r \in ResolveIds, h \in Tokens, redisUp \in BOOLEAN :
          ResolveCacheGet(r, h, redisUp)
    \/ \E r \in ResolveIds, dbUp \in BOOLEAN : ResolveSelect(r, dbUp)
    \/ \E r \in ResolveIds, redisUp \in BOOLEAN : ResolveBackfill(r, redisUp)
    \/ \E k \in Tokens : Evict(k)

Spec == Init /\ [][Next]_vars

----------------------------------------------------------------------------
\* Properties

Unavailable == {"StoreUnavailable", "StoreTimeout", "CacheUnavailable"}

CreateDone(c) == creates[c].pc = "done"
ResolveDone(r) == resolves[r].pc = "done"

\* C1: no two rows of urls have the same short_url.
C1_TokenUnique ==
    \A i, j \in 1..Len(urls) :
        urls[i].short_url = urls[j].short_url => i = j

\* Two rows are stored and a third insert, of a token already taken, has
\* been refused.
C1_Witness ==
    /\ Len(urls) >= 2
    /\ \E c \in CreateIds :
          CreateDone(c) /\ creates[c].response.error = "IntegrityError"

\* C2: a resolve of a token that a create had returned to the client, and
\* whose calls to Redis and PostgreSQL all went through, redirects to
\* exactly the target of that create, whether Redis still held the token
\* or not.
C2_RoundTrip ==
    \A r \in ResolveIds :
        (ResolveDone(r) /\ resolves[r].expect # {}
            /\ resolves[r].response.error \notin Unavailable)
        => /\ resolves[r].response.status = 307
           /\ \A u \in resolves[r].expect : resolves[r].response.body = u

\* One resolve of a returned token was served from Redis and another, after
\* the key was evicted, from PostgreSQL; both gave back the non-ASCII URL.
C2_Witness ==
    \E r1, r2 \in ResolveIds :
        /\ ResolveDone(r1) /\ ResolveDone(r2)
        /\ resolves[r1].expect = {<<233>>} /\ resolves[r2].expect = {<<233>>}
        /\ resolves[r1].response.body = <<233>>
        /\ resolves[r2].response.body = <<233>>
        /\ resolves[r1].dbCalls = 0 /\ Truthy(resolves[r1].cached)
        /\ resolves[r2].dbCalls = 1 /\ resolves[r2].cached = None

\* C3: every resolve that redirects, redirects to the long_url of the row
\* that urls holds for the requested token.
C3_NeverWrongTarget ==
    \A r \in ResolveIds :
        (ResolveDone(r) /\ resolves[r].response.status = 307)
        => /\ Matching(urls, resolves[r].short_url_hash) # {}
           /\ \A i \in Matching(urls, resolves[r].short_url_hash) :
                 urls[i].long_url = resolves[r].response.body

\* A resolve has redirected while urls also holds another token with a
\* different target.
C3_Witness ==
    \E r \in ResolveIds :
        /\ ResolveDone(r) /\ resolves[r].response.status = 307
        /\ \E i \in 1..Len(urls) :
              /\ urls[i].short_url # resolves[r].short_url_hash
              /\ urls[i].long_url # resolves[r].response.body

\* The creates made so far.
StartedCreates == {c \in CreateIds : creates[c].pc # "idle"}

\* C4: when several creates with distinct non-empty targets have all
\* ended without any backend being unavailable, all of them succeeded,
\* with distinct tokens and a row each.
C4_ConcurrentCreatesAllSucceed ==
    ( /\ Cardinality(StartedCreates) >= 2
      /\ \A c \in StartedCreates :
            /\ CreateDone(c)
            /\ creates[c].long_url \notin {<<>>, Missing}
            /\ creates[c].response.error \notin Unavailable
      /\ \A c, d \in StartedCreates :
            creates[c].long_url = creates[d].long_url => c = d )
    => /\ \A c \in StartedCreates :
             /\ creates[c].response.status = 200
             /\ \E i \in 1..Len(urls) :
                   /\ urls[i].short_url = creates[c].short_url_hash
                   /\ urls[i].long_url = creates[c].long_url
       /\ \A c, d \in StartedCreates :
             creates[c].short_url_hash = creates[d].short_url_hash => c = d

\* C5: no create ends with the raw uniqueness error of the store: the
\* collision is retried with a new token.
C5_CollisionRetried ==
    \A c \in CreateIds :
        CreateDone(c) => creates[c].response.error # "IntegrityError"

\* C6: a create that got past validation and whose insert was committed
\* returns the token, whatever Redis does.
C6_CreateSurvivesCacheFailure ==
    \A c \in CreateIds :
        (CreateDone(c) /\ creates[c].response.error \notin
            {"Field required", "URL not provided", "StoreUnavailable",
             "StoreTimeout", "IntegrityError"})
        => creates[c].response.status = 200

\* C7: a resolve of a token that urls holds (a token handed out earlier,
\* or one whose row the request itself fetched) redirects unless
\* PostgreSQL was unavailable; Redis being unavailable makes no difference.
C7_ResolveSurvivesCacheFailure ==
    \A r \in ResolveIds :
        (ResolveDone(r)
            /\ (resolves[r].expect # {} \/ resolves[r].row # None)
            /\ resolves[r].response.error # "StoreUnavailable")
        => resolves[r].response.status = 307

\* C8: every key of Redis is the short_url of a row of urls, and its value
\* is that row's long_url.
C8_CacheCoherent ==
    \A k \in DOMAIN redis :
        /\ Matching(urls, k) # {}
        /\ \A i \in Matching(urls, k) : Decode(redis[k]) = urls[i].long_url

\* Redis holds a key written by a create and a key written back by a
\* resolve, with different values.
C8_Witness ==
    /\ \E k1, k2 \in DOMAIN redis : redis[k1] # redis[k2]
    /\ \E r \in ResolveIds :
          /\ ResolveDone(r) /\ resolves[r].dbCalls = 1
          /\ resolves[r].response.status = 307
          /\ resolves[r].short_url_hash \in DOMAIN redis

\* C9: a resolve of a token that a create had returned, and that finds the
\* token in Redis, ends at once with a redirect to the create's target and
\* has made no query to PostgreSQL.
C9_CacheHitNoStore ==
    \A r \in ResolveIds :
        (resolves[r].pc # "idle" /\ resolves[r].expect # {}
            /\ Truthy(resolves[r].cached))
        => /\ ResolveDone(r)
           /\ resolves[r].dbCalls = 0
           /\ resolves[r].response.status = 307
           /\ \A u \in resolves[r].expect : resolves[r].response.body = u

\* A resolve of a returned token was answered from Redis.
C9_Witness ==
    \E r \in ResolveIds :
        /\ ResolveDone(r) /\ resolves[r].expect # {}
        /\ Truthy(resolves[r].cached)
        /\ resolves[r].response.status = 307
        /\ resolves[r].dbCalls = 0

\* C10: a resolve of a token that urls does not hold, and whose calls to
\* Redis and PostgreSQL went through, ends with 404.
C10_UnknownNotFound ==
    \A r \in ResolveIds :
        (ResolveDone(r) /\ Matching(urls, resolves[r].short_url_hash) = {}
            /\ resolves[r].response.error \notin Unavailable)
        => resolves[r].response.status = 404

\* A resolve of an unknown token got 404 after a create had stored and
\* returned another token.
C10_Witness ==
    \E r \in ResolveIds :
        /\ ResolveDone(r) /\ resolves[r].response.status = 404
        /\ Matching(urls, resolves[r].short_url_hash) = {}
        /\ resolves[r].dbCalls = 1
        /\ \E c \in CreateIds :
              CreateDone(c) /\ creates[c].response.status = 200

\* The row that a create request inserts.
OwnRow(c) ==
    \E i \in 1..Len(urls) :
        /\ urls[i].short_url = creates[c].short_url_hash
        /\ urls[i].long_url = creates[c].long_url

\* C11: a step of a create changes Redis only when the row of that request
\* is already committed, and a resolve queries PostgreSQL only after it has
\* queried Redis and missed.
C11_TierOrder ==
    [][ /\ \A c \in CreateIds :
              (creates'[c] # creates[c] /\ redis' # redis)
              => /\ creates[c].pc = "cache"
                 /\ OwnRow(c)
        /\ \A r \in ResolveIds :
              resolves'[r].dbCalls > resolves[r].dbCalls
              => /\ resolves[r].pc = "select"
                 /\ ~Truthy(resolves[r].cached) ]_vars

\* A create has written Redis after its insert, and a resolve has queried
\* PostgreSQL after missing in Redis.
C11_Witness ==
    /\ \E c \in CreateIds :
          /\ CreateDone(c) /\ creates[c].response.status = 200
          /\ OwnRow(c) /\ creates[c].short_url_hash \in DOMAIN redis
    /\ \E r \in ResolveIds :
          /\ ResolveDone(r) /\ resolves[r].dbCalls = 1
          /\ resolves[r].cached = None
          /\ resolves[r].response.status = 307

\* C12: a create that cannot reach PostgreSQL ends at that step with an
\* error response, and the step leaves urls and Redis as they were.
C12_StoreDownCreateFails ==
    [][ \A c \in CreateIds :
            (creates[c].pc # "done" /\ CreateDone(c)'
                /\ creates'[c].response.error = "StoreUnavailable")
            => /\ creates'[c].response.status = 500
               /\ urls' = urls
               /\ redis' = redis ]_vars

\* A create of a valid url has failed because PostgreSQL was unreachable;
\* nothing is stored or cached for that url.
C12_Witness ==
    \E c \in CreateIds :
        /\ CreateDone(c) /\ creates[c].response.error = "StoreUnavailable"
        /\ creates[c].response.status = 500
        /\ \A i \in 1..Len(urls) : urls[i].long_url # creates[c].long_url
        /\ \A k \in DOMAIN redis : redis[k] # Encode(creates[c].long_url)
        /\ Len(urls) > 0

\* C13: a create whose body has an empty or no url is answered with 400,
\* without a token and without an insert.
C13_InvalidInputIs400 ==
    \A c \in CreateIds :
        (CreateDone(c) /\ creates[c].long_url \in {<<>>, Missing})
        => /\ creates[c].response.status = 400
           /\ creates[c].short_url_hash = 0
           /\ creates[c].inserts = 0

\* C14: no step removes or changes a row of urls; the table only grows.
C14_RowsImmutable ==
    [][ /\ Len(urls') >= Len(urls)
        /\ \A i \in 1..Len(urls) : urls'[i] = urls[i] ]_vars

\* urls holds a row, a create has collided with it and a resolve has been
\* redirected.
C14_Witness ==
    /\ Len(urls) >= 1
    /\ \E c \in CreateIds :
          CreateDone(c) /\ creates[c].response.error = "IntegrityError"
    /\ \E r \in ResolveIds :
          ResolveDone(r) /\ resolves[r].response.status = 307

\* C15: the step in which a resolve ends with 404 leaves Redis unchanged,
\* and a resolve of a token that a create has returned redirects to the
\* create's target, from PostgreSQL if Redis misses, also when an earlier
\* resolve of the same token ended with 404.
C15_NoNegativeCaching ==
    /\ [][ \A r \in ResolveIds :
              (resolves[r].pc # "done" /\ ResolveDone(r)'
                  /\ resolves'[r].response.status = 404)
              => redis' = redis ]_vars
    /\ [](\A r1, r2 \in ResolveIds :
              ( /\ ResolveDone(r1) /\ resolves[r1].response.status = 404
                /\ ResolveDone(r2) /\ resolves[r2].expect # {}
                /\ resolves[r2].short_url_hash = resolves[r1].short_url_hash
                /\ resolves[r2].response.error \notin Unavailable )
              => /\ resolves[r2].response.status = 307
                 /\ resolves[r2].response.body \in resolves[r2].expect)

\* A resolve of a token ended with 404, a create then stored and returned
\* that token, and a second resolve, missing in Redis, found it in urls.
C15_Witness ==
    \E r1, r2 \in ResolveIds :
        /\ ResolveDone(r1) /\ resolves[r1].response.status = 404
        /\ ResolveDone(r2) /\ resolves[r2].response.status = 307
        /\ resolves[r2].short_url_hash = resolves[r1].short_url_hash
        /\ resolves[r2].expect # {}
        /\ resolves[r2].dbCalls = 1

\* C16: a resolve that found its row in urls redirects to that row's
\* long_url, whether or not the write-back to Redis went through.
C16_BackfillBestEffort ==
    \A r \in ResolveIds :
        (ResolveDone(r) /\ resolves[r].row # None)
        => /\ resolves[r].response.status = 307
           /\ resolves[r].response.body = resolves[r].row[1].long_url

\* C17: a create executes its insert at most once, and an insert that timed
\* out ends the request with an error response.
C17_NoBlindRetry ==
    \A c \in CreateIds :
        /\ creates[c].inserts <= 1
        /\ creates[c].response.error = "StoreTimeout"
           => /\ CreateDone(c)
              /\ creates[c].response.status = 500
              /\ creates[c].inserts = 1

\* A create has ended with an error after its insert timed out, and urls
\* holds the row it inserted.
C17_Witness ==
    \E c \in CreateIds :
        /\ CreateDone(c) /\ creates[c].response.error = "StoreTimeout"
        /\ creates[c].response.status = 500
        /\ creates[c].inserts = 1
        /\ \E i \in 1..Len(urls) : urls[i].long_url = creates[c].long_url

\* C18: the first step of a create never changes Redis; it goes on to the
\* Redis write only if it appended the request's own row under a token that
\* urls did not hold, and if it ends in a uniqueness error it leaves urls
\* as it was.
C18_CollisionNoOverwrite ==
    [][ \A c \in CreateIds :
            (creates[c].pc = "idle" /\ creates'[c].pc # "idle")
            => /\ redis' = redis
               /\ creates'[c].pc = "cache"
                  => /\ ~UniqueViolation(urls, creates'[c].short_url_hash)
                     /\ urls' = InsertRow(urls, creates'[c].short_url_hash,
                                          creates'[c].long_url)
               /\ creates'[c].response.error = "IntegrityError"
                  => urls' = urls ]_vars

\* A create has ended with the uniqueness error while the row and the
\* Redis entry of the token it collided with still carry another target.
C18_Witness ==
    \E c \in CreateIds :
        /\ CreateDone(c) /\ creates[c].response.error = "IntegrityError"
        /\ Len(urls) = 1
        /\ urls[1].long_url # creates[c].long_url
        /\ urls[1].short_url \in DOMAIN redis
        /\ Decode(redis[urls[1].short_url]) = urls[1].long_url

\* C19: a step of a resolve leaves urls unchanged, and in Redis it can only
\* set the key of the token it looks up.
C19_ResolveReadOnly ==
    [][ \A r \in ResolveIds :
            resolves'[r] # resolves[r]
            => /\ urls' = urls
               /\ DOMAIN redis' \subseteq
                     (DOMAIN redis) \cup {resolves'[r].short_url_hash}
               /\ \A k \in DOMAIN redis :
                     k # resolves'[r].short_url_hash
                     => k \in DOMAIN redis' /\ redis'[k] = redis[k] ]_vars

\* A resolve has written its token back to Redis, next to the key of
\* another token, with both rows in urls.
C19_Witness ==
    \E r \in ResolveIds :
        /\ ResolveDone(r) /\ resolves[r].dbCalls = 1
        /\ resolves[r].response.status = 307
        /\ Len(urls) = 2
        /\ DOMAIN redis = {urls[1].short_url, urls[2].short_url}
        /\ Decode(redis[resolves[r].short_url_hash]) = resolves[r].response.body

====
